---- MODULE Spec2Model ----
(***************************************************************************)
(* The Users screen of friendship-admin (src/src/modules/Users.jsx): the   *)
(* component's local state (four dialog flags, the shared pending user,    *)
(* the pending scope and the ban form), the handlers wired to the rows and *)
(* to the four dialogs, and the action creators of mapDispatchToProps with *)
(* their completion callbacks.                                             *)
(***************************************************************************)
EXTENDS Integers, Sequences, FiniteSets, TLC

\* ---------------------------------------------------------------- bounds
NumUsers == 2      \* rows of the table
MaxCalls == 2      \* mutations dispatched during one run of the model

\* ------------------------------------------------------------ value sets
Null == 0                          \* JavaScript null for a user reference
UserIds == 1..NumUsers             \* the users rendered as rows
NoScope == "null"                  \* state.scope: null
Scopes == {"admin", "user"}
Units == {"hours", "days"}          \* two of the six MenuItem values
Amounts == {"", "5"}               \* what the amount field can hold
Reasons == {"", "spam"}            \* what the dialog's text field can hold

VARIABLES
  lifecycle,             \* "constructed", "mounted" or "unmounted"
  dialogOpen,            \* state.dialogOpen
  deleteUserDialogOpen,  \* state.deleteUserDialogOpen
  banUserDialogOpen,     \* state.banUserDialogOpen
  scopeDialogOpen,       \* state.scopeDialogOpen (undefined, hence falsy, at first)
  tempUserForDialogs,    \* state.tempUserForDialogs
  scope,                 \* state.scope
  banInfo,               \* state.banInfo, flattened: reason, amount, indicator
  pending,               \* mutations dispatched whose callback has not run yet
  completed,             \* completion callbacks that have run
  refreshes,             \* dispatch(rest.actions.users()) calls so far
  lastCall,              \* the REST call the last event asked for, if any
  lastEvent,             \* history: the last event handled
  openedFor              \* history: per dialog, the row it was opened from

state == <<dialogOpen, deleteUserDialogOpen, banUserDialogOpen, scopeDialogOpen,
           tempUserForDialogs, scope, banInfo>>
store == <<pending, completed, refreshes>>
vars == <<lifecycle, state, store, lastCall, lastEvent, openedFor>>

\* banInfo as the constructor and every close handler set it
EmptyBanInfo == [reason |-> "", amount |-> "", indicator |-> ""]

NoCall == [kind |-> "none", userId |-> Null, reason |-> "", expire |-> "",
           field |-> "", value |-> "", threw |-> FALSE]

NoneOpened == [del |-> Null, ban |-> Null, scopeUser |-> Null, scopeValue |-> NoScope]

Issued == pending + completed

\* Users.state, as the class field initialiser leaves it
Init ==
  /\ lifecycle = "constructed"
  /\ dialogOpen = FALSE
  /\ deleteUserDialogOpen = FALSE
  /\ banUserDialogOpen = FALSE
  /\ scopeDialogOpen = FALSE
  /\ tempUserForDialogs = Null
  /\ scope = NoScope
  /\ banInfo = EmptyBanInfo
  /\ pending = 0
  /\ completed = 0
  /\ refreshes = 0
  /\ lastCall = NoCall
  /\ lastEvent = "none"
  /\ openedFor = NoneOpened

\* -------------------------------------------------- external collaborators
\* DialogWithButtons: the submit and close callbacks of a dialog can only be
\* triggered, and its description (the ban form) edited, while isOpen holds
DialogShown(isOpen) == isOpen

\* reading user.id of a null user raises a TypeError
Throws(user) == user = Null

\* --------------------------------------------------- mapDispatchToProps
\* refresh, and the same dispatch(rest.actions.users()) inside each callback
refresh == refreshes' = refreshes + 1

refreshUser(user) == lastCall' = [NoCall EXCEPT !.kind = "userDetails", !.userId = user]

deleteUser(user) ==
  IF Throws(user)
    THEN /\ lastCall' = [NoCall EXCEPT !.kind = "delete", !.threw = TRUE]
         /\ UNCHANGED pending
    ELSE /\ lastCall' = [NoCall EXCEPT !.kind = "delete", !.userId = user]
         /\ pending' = pending + 1

\* a slip in the condition: "x" only when both fields are empty
expireTokenAnd(amount, indicator) ==
  IF amount = "" /\ indicator = "" THEN "x" ELSE amount \o ":" \o indicator

\* the expire field of the ban request body
expireToken(amount, indicator) ==
  IF amount = "" \/ indicator = "" THEN "x" ELSE amount \o ":" \o indicator

banUser(user, info) ==
  LET body == [NoCall EXCEPT !.kind = "ban", !.reason = info.reason,
                             !.expire = expireToken(info.amount, info.indicator)]
  IN  IF Throws(user)
        THEN /\ lastCall' = [body EXCEPT !.threw = TRUE]
             /\ UNCHANGED pending
        ELSE /\ lastCall' = [body EXCEPT !.userId = user]
             /\ pending' = pending + 1

updateUser(user, field, value) ==
  LET body == [NoCall EXCEPT !.kind = "patch", !.field = field, !.value = value]
  IN  IF Throws(user)
        THEN /\ lastCall' = [body EXCEPT !.threw = TRUE]
             /\ UNCHANGED pending
        ELSE /\ lastCall' = [body EXCEPT !.userId = user]
             /\ pending' = pending + 1

\* a callback that forgets the refresh
CompleteNoRefresh ==
  /\ pending > 0
  /\ pending' = pending - 1
  /\ completed' = completed + 1
  /\ lastEvent' = "complete"
  /\ lastCall' = NoCall
  /\ UNCHANGED <<lifecycle, state, refreshes, openedFor>>

\* a callback that is dropped once the component is gone
CompleteIfMounted ==
  /\ lifecycle = "mounted"
  /\ pending > 0
  /\ pending' = pending - 1
  /\ completed' = completed + 1
  /\ refreshes' = refreshes + 1
  /\ lastEvent' = "complete"
  /\ lastCall' = NoCall
  /\ UNCHANGED <<lifecycle, state, openedFor>>

\* the completion callback handed to rest.actions.*: whatever the outcome of
\* the remote call and whatever became of the component, it refreshes the list
Complete ==
  /\ pending > 0
  /\ pending' = pending - 1
  /\ completed' = completed + 1
  /\ refresh
  /\ lastEvent' = "complete"
  /\ lastCall' = NoCall
  /\ UNCHANGED <<lifecycle, state, openedFor>>

\* ------------------------------------------------------------- lifecycle
componentDidMount ==
  /\ lifecycle = "constructed"
  /\ lifecycle' = "mounted"
  /\ refresh
  /\ lastEvent' = "mount"
  /\ lastCall' = NoCall
  /\ UNCHANGED <<state, pending, completed, openedFor>>

\* React removes the component; nothing in the file reacts to it
Unmount ==
  /\ lifecycle = "mounted"
  /\ lifecycle' = "unmounted"
  /\ lastEvent' = "unmount"
  /\ lastCall' = NoCall
  /\ UNCHANGED <<state, store, openedFor>>

\* ------------------------------------------------------------ row actions
openDeleteModal(user) ==
  /\ deleteUserDialogOpen' = TRUE
  /\ tempUserForDialogs' = user
  /\ UNCHANGED <<dialogOpen, banUserDialogOpen, scopeDialogOpen, scope, banInfo>>

openBanModal(user) ==
  /\ banUserDialogOpen' = TRUE
  /\ tempUserForDialogs' = user
  /\ UNCHANGED <<dialogOpen, deleteUserDialogOpen, scopeDialogOpen, scope, banInfo>>

openScopeModal(user, newScope) ==
  /\ scopeDialogOpen' = TRUE
  /\ tempUserForDialogs' = user
  /\ scope' = newScope
  /\ UNCHANGED <<dialogOpen, deleteUserDialogOpen, banUserDialogOpen, banInfo>>

ScopeOnChange(user, newScope) ==
  /\ lifecycle = "mounted"
  /\ openScopeModal(user, newScope)
  /\ openedFor' = [openedFor EXCEPT !.scopeUser = user, !.scopeValue = newScope]
  /\ lastEvent' = "openScope"
  /\ lastCall' = NoCall
  /\ UNCHANGED <<lifecycle, store>>

ActiveOnChange(user, checked) ==
  /\ lifecycle = "mounted"
  /\ Issued < MaxCalls
  /\ updateUser(user, "active", IF checked THEN "true" ELSE "false")
  /\ lastEvent' = "toggleActive"
  /\ UNCHANGED <<lifecycle, state, completed, refreshes, openedFor>>

ShowDetailsOnClick(user) ==
  /\ lifecycle = "mounted"
  /\ refreshUser(user)
  /\ dialogOpen' = TRUE
  /\ lastEvent' = "showDetails"
  /\ UNCHANGED <<lifecycle, deleteUserDialogOpen, banUserDialogOpen, scopeDialogOpen,
                 tempUserForDialogs, scope, banInfo, pending, completed, refreshes, openedFor>>

DeleteOnClick(user) ==
  /\ lifecycle = "mounted"
  /\ openDeleteModal(user)
  /\ openedFor' = [openedFor EXCEPT !.del = user]
  /\ lastEvent' = "openDelete"
  /\ lastCall' = NoCall
  /\ UNCHANGED <<lifecycle, store>>

BanOnClick(user) ==
  /\ lifecycle = "mounted"
  /\ openBanModal(user)
  /\ openedFor' = [openedFor EXCEPT !.ban = user]
  /\ lastEvent' = "openBan"
  /\ lastCall' = NoCall
  /\ UNCHANGED <<lifecycle, store>>

\* --------------------------------------------------------- ban form edits
AmountOnChange(value) ==
  /\ lifecycle = "mounted"
  /\ DialogShown(banUserDialogOpen)
  /\ banInfo' = [banInfo EXCEPT !.amount = value]
  /\ lastEvent' = "editAmount"
  /\ lastCall' = NoCall
  /\ UNCHANGED <<lifecycle, dialogOpen, deleteUserDialogOpen, banUserDialogOpen,
                 scopeDialogOpen, tempUserForDialogs, scope, store, openedFor>>

IndicatorOnChange(value) ==
  /\ lifecycle = "mounted"
  /\ DialogShown(banUserDialogOpen)
  /\ banInfo' = [banInfo EXCEPT !.indicator = value]
  /\ lastEvent' = "editIndicator"
  /\ lastCall' = NoCall
  /\ UNCHANGED <<lifecycle, dialogOpen, deleteUserDialogOpen, banUserDialogOpen,
                 scopeDialogOpen, tempUserForDialogs, scope, store, openedFor>>

\* ------------------------------------------------------- dialog handlers
\* the detail dialog: submit and close run the same setState
DetailSubmit ==
  /\ lifecycle = "mounted"
  /\ DialogShown(dialogOpen)
  /\ dialogOpen' = FALSE
  /\ lastEvent' = "submitDetail"
  /\ lastCall' = NoCall
  /\ UNCHANGED <<lifecycle, deleteUserDialogOpen, banUserDialogOpen, scopeDialogOpen,
                 tempUserForDialogs, scope, banInfo, store, openedFor>>

DetailClose ==
  /\ lifecycle = "mounted"
  /\ DialogShown(dialogOpen)
  /\ dialogOpen' = FALSE
  /\ lastEvent' = "closeDetail"
  /\ lastCall' = NoCall
  /\ UNCHANGED <<lifecycle, deleteUserDialogOpen, banUserDialogOpen, scopeDialogOpen,
                 tempUserForDialogs, scope, banInfo, store, openedFor>>

\* deleteUser runs first; when it throws, the setState after it is never reached
DeleteSubmit ==
  /\ lifecycle = "mounted"
  /\ DialogShown(deleteUserDialogOpen)
  /\ Issued < MaxCalls
  /\ deleteUser(tempUserForDialogs)
  /\ IF Throws(tempUserForDialogs)
       THEN UNCHANGED <<tempUserForDialogs, deleteUserDialogOpen, openedFor>>
       ELSE /\ tempUserForDialogs' = Null
            /\ deleteUserDialogOpen' = FALSE
            /\ openedFor' = [openedFor EXCEPT !.del = Null]
  /\ lastEvent' = "submitDelete"
  /\ UNCHANGED <<lifecycle, dialogOpen, banUserDialogOpen, scopeDialogOpen, scope,
                 banInfo, completed, refreshes>>

\* a close handler wired like the submit handler
DeleteCloseDeletes ==
  /\ lifecycle = "mounted"
  /\ DialogShown(deleteUserDialogOpen)
  /\ Issued < MaxCalls
  /\ deleteUser(tempUserForDialogs)
  /\ tempUserForDialogs' = Null
  /\ deleteUserDialogOpen' = FALSE
  /\ openedFor' = [openedFor EXCEPT !.del = Null]
  /\ lastEvent' = "closeDelete"
  /\ UNCHANGED <<lifecycle, dialogOpen, banUserDialogOpen, scopeDialogOpen, scope,
                 banInfo, completed, refreshes>>

DeleteClose ==
  /\ lifecycle = "mounted"
  /\ DialogShown(deleteUserDialogOpen)
  /\ tempUserForDialogs' = Null
  /\ deleteUserDialogOpen' = FALSE
  /\ openedFor' = [openedFor EXCEPT !.del = Null]
  /\ lastEvent' = "closeDelete"
  /\ lastCall' = NoCall
  /\ UNCHANGED <<lifecycle, dialogOpen, banUserDialogOpen, scopeDialogOpen, scope,
                 banInfo, store>>

\* setState stores the reason, then its callback bans and resets. When banUser
\* throws inside the callback the reset is never reached: the reason stays in
\* the state, and React either leaves the component as it is (React 15) or, no
\* error boundary being present, unmounts the tree (React 16)
BanSubmit(value) ==
  LET info == [banInfo EXCEPT !.reason = value]
  IN  /\ lifecycle = "mounted"
      /\ DialogShown(banUserDialogOpen)
      /\ Issued < MaxCalls
      /\ banUser(tempUserForDialogs, info)
      /\ IF Throws(tempUserForDialogs)
           THEN /\ banInfo' = info
                /\ lifecycle' \in {"mounted", "unmounted"}
                /\ UNCHANGED <<tempUserForDialogs, banUserDialogOpen, openedFor>>
           ELSE /\ banInfo' = EmptyBanInfo
                /\ tempUserForDialogs' = Null
                /\ banUserDialogOpen' = FALSE
                /\ openedFor' = [openedFor EXCEPT !.ban = Null]
                /\ UNCHANGED lifecycle
      /\ lastEvent' = "submitBan"
      /\ UNCHANGED <<dialogOpen, deleteUserDialogOpen, scopeDialogOpen, scope,
                     completed, refreshes>>

\* a close handler that forgets the ban form
BanCloseKeepsInfo ==
  /\ lifecycle = "mounted"
  /\ DialogShown(banUserDialogOpen)
  /\ tempUserForDialogs' = Null
  /\ banUserDialogOpen' = FALSE
  /\ openedFor' = [openedFor EXCEPT !.ban = Null]
  /\ lastEvent' = "closeBan"
  /\ lastCall' = NoCall
  /\ UNCHANGED <<lifecycle, dialogOpen, deleteUserDialogOpen, scopeDialogOpen, scope,
                 banInfo, store>>

BanClose ==
  /\ lifecycle = "mounted"
  /\ DialogShown(banUserDialogOpen)
  /\ tempUserForDialogs' = Null
  /\ banInfo' = EmptyBanInfo
  /\ banUserDialogOpen' = FALSE
  /\ openedFor' = [openedFor EXCEPT !.ban = Null]
  /\ lastEvent' = "closeBan"
  /\ lastCall' = NoCall
  /\ UNCHANGED <<lifecycle, dialogOpen, deleteUserDialogOpen, scopeDialogOpen, scope,
                 store>>

ScopeSubmit ==
  /\ lifecycle = "mounted"
  /\ DialogShown(scopeDialogOpen)
  /\ Issued < MaxCalls
  /\ updateUser(tempUserForDialogs, "scope", scope)
  /\ IF Throws(tempUserForDialogs)
       THEN UNCHANGED <<scope, scopeDialogOpen, tempUserForDialogs, openedFor>>
       ELSE /\ scope' = NoScope
            /\ scopeDialogOpen' = FALSE
            /\ tempUserForDialogs' = Null
            /\ openedFor' = [openedFor EXCEPT !.scopeUser = Null, !.scopeValue = NoScope]
  /\ lastEvent' = "submitScope"
  /\ UNCHANGED <<lifecycle, dialogOpen, deleteUserDialogOpen, banUserDialogOpen,
                 banInfo, completed, refreshes>>

ScopeClose ==
  /\ lifecycle = "mounted"
  /\ DialogShown(scopeDialogOpen)
  /\ scope' = NoScope
  /\ scopeDialogOpen' = FALSE
  /\ tempUserForDialogs' = Null
  /\ openedFor' = [openedFor EXCEPT !.scopeUser = Null, !.scopeValue = NoScope]
  /\ lastEvent' = "closeScope"
  /\ lastCall' = NoCall
  /\ UNCHANGED <<lifecycle, dialogOpen, deleteUserDialogOpen, banUserDialogOpen,
                 banInfo, store>>

\* ---------------------------------------------------------- specification
Next ==
  \/ componentDidMount
  \/ Unmount
  \/ \E user \in UserIds, newScope \in Scopes : ScopeOnChange(user, newScope)
  \/ \E user \in UserIds, checked \in BOOLEAN : ActiveOnChange(user, checked)
  \/ \E user \in UserIds : ShowDetailsOnClick(user)
  \/ \E user \in UserIds : DeleteOnClick(user)
  \/ \E user \in UserIds : BanOnClick(user)
  \/ \E value \in Amounts : AmountOnChange(value)
  \/ \E value \in Units : IndicatorOnChange(value)
  \/ DetailSubmit
  \/ DetailClose
  \/ DeleteSubmit
  \/ DeleteClose
  \/ \E value \in Reasons : BanSubmit(value)
  \/ BanClose
  \/ ScopeSubmit
  \/ ScopeClose
  \/ Complete

Spec == Init /\ [][Next]_vars

\* ------------------------------------------------------------ properties
Flag(b) == IF b THEN 1 ELSE 0
OpenCount == Flag(dialogOpen) + Flag(deleteUserDialogOpen)
             + Flag(banUserDialogOpen) + Flag(scopeDialogOpen)
AnyOpen == OpenCount > 0
SubmitEvents == {"submitDetail", "submitDelete", "submitBan", "submitScope"}
CloseEvents == {"closeDetail", "closeDelete", "closeBan", "closeScope"}
Mutations == {"delete", "ban", "patch"}

\* C1: in every reachable state at most one of the four dialogs is open (a
\* dialog opened while another is open supersedes it)
C1_AtMostOneDialogOpen == OpenCount <= 1

\* C2: the pending subject is non-null whenever a dialog is open and null
\* whenever all four dialogs are closed
C2_SubjectIffDialogOpen ==
  /\ AnyOpen => tempUserForDialogs # Null
  /\ ~AnyOpen => tempUserForDialogs = Null

\* C3: the submit of the delete, ban or scope dialog hands the mutation the
\* user (and scope) recorded when that dialog was opened, whatever row actions
\* happened in between
C3_SubmitTargetsOpener ==
  [][/\ lastEvent' = "submitDelete" =>
          lastCall'.kind = "delete" /\ lastCall'.userId = openedFor.del
     /\ lastEvent' = "submitBan" =>
          lastCall'.kind = "ban" /\ lastCall'.userId = openedFor.ban
     /\ lastEvent' = "submitScope" =>
          /\ lastCall'.kind = "patch" /\ lastCall'.field = "scope"
          /\ lastCall'.userId = openedFor.scopeUser
          /\ lastCall'.value = openedFor.scopeValue]_vars

\* C4: every ban submission sends the expiry token "x" when the amount or the
\* unit held by the ban form is empty and "<amount>:<unit>" otherwise; amount
\* "5" with unit "days" gives "5:days"
C4_ExpiryToken ==
  [][lastEvent' = "submitBan" =>
       LET a == banInfo.amount
           u == banInfo.indicator
           e == lastCall'.expire
       IN  /\ lastCall'.kind = "ban"
           /\ (a = "" \/ u = "") => e = "x"
           /\ (a # "" /\ u # "") => e = a \o ":" \o u
           /\ (a = "5" /\ u = "days") => e = "5:days"]_vars

C4_Witness ==
  /\ lastEvent = "submitBan"
  /\ ~lastCall.threw
  /\ lastCall.expire = "5:days"

\* C5: apart from the refresh of componentDidMount, the list refreshes issued
\* are exactly one per completed mutation, none of them before its completion
C5_OneRefreshPerCompletion ==
  refreshes = (IF lifecycle = "constructed" THEN 0 ELSE 1) + completed

C5_Witness ==
  /\ lastEvent = "complete"
  /\ completed >= 2
  /\ refreshes = 1 + completed

\* C6: right after the submit or the cancel of a dialog that dialog is closed
\* and its transient fields are back at their defaults (ban reason, amount and
\* unit empty; pending scope none), whatever becomes of the mutation
C6_SubmitOrCancelResets ==
  /\ lastEvent \in {"submitDetail", "closeDetail"} => ~dialogOpen
  /\ lastEvent \in {"submitDelete", "closeDelete"} => ~deleteUserDialogOpen
  /\ lastEvent \in {"submitBan", "closeBan"} =>
       ~banUserDialogOpen /\ banInfo = EmptyBanInfo
  /\ lastEvent \in {"submitScope", "closeScope"} =>
       ~scopeDialogOpen /\ scope = NoScope

\* C7: cancelling a dialog issues no mutation and no refresh; opening the
\* delete dialog and cancelling it dispatches nothing, closes the delete
\* dialog, clears the pending subject and leaves no dialog open that was not
\* open before
C7_CancelIssuesNothing ==
  [][/\ lastEvent' \in CloseEvents => lastCall' = NoCall /\ store' = store
     /\ lastEvent' = "openDelete" => lastCall' = NoCall /\ store' = store
     /\ (lastEvent = "openDelete" /\ lastEvent' = "closeDelete") =>
          /\ ~deleteUserDialogOpen'
          /\ tempUserForDialogs' = Null
          /\ OpenCount' = OpenCount - 1
          /\ OpenCount = 1 => ~AnyOpen']_vars

C7_Witness ==
  /\ lastEvent = "closeDelete"
  /\ ~AnyOpen
  /\ tempUserForDialogs = Null
  /\ Issued = 0
  /\ refreshes = 1

C9_NoCancellationOnUnmount ==
  (lifecycle = "unmounted" /\ pending > 0) =>
     ENABLED (Complete /\ refreshes' = refreshes + 1)

C9_Witness ==
  /\ lifecycle = "unmounted"
  /\ lastEvent = "complete"
  /\ refreshes >= 2

\* C10: deleteUser, banUser and updateUser are never handed a null user
C10_NoNullUser ==
  lastCall.kind \in Mutations => (lastCall.userId # Null /\ ~lastCall.threw)

====
